---- MODULE Spec2Model ----
(***************************************************************************)
(* Model of apps/web/lib/api/domains/delete-domain-links.ts:               *)
(*   deleteDomainAndLinks, markDomainAsDeleted, queueDomainDeletion.       *)
(* Every await on a remote store is one step; the members of a             *)
(* Promise.allSettled settle one by one, in any order.                     *)
(***************************************************************************)
EXTENDS Integers, Sequences, FiniteSets, Bags, TLC

(* ------------------------------ bounds --------------------------------- *)
\* rows of the link table that may exist at the start
MaxLinks == 2
\* invocations that may be in flight at the same time
MaxProcs == 2
\* invocations started from outside (cron route, API route)
MaxCalls == 1
\* remote operations that may fail in one behaviour
MaxFailures == 2

\* link 0 is a link of the domain no call names; it exists throughout
LinkIds == 0..MaxLinks
Procs == 1..MaxProcs

(* --------------------------- program constants ------------------------- *)
\* findMany({ take: 1 })
Take == 1
\* queueDomainDeletion({ delay: 2 })
RequeueDelay == 2
R2_URL == "https://r2.example"
CronUrl == "APP_DOMAIN_WITH_NGROK/api/cron/domains/delete"

(* ------------------------------ the data ------------------------------- *)
\* strings that are case-normalised are sequences of characters
Domains == {<<"g", "o">>, <<"a", "c">>}
\* the domains the routes are called with; the other domain is the frame
Targets == {<<"g", "o">>}
Workspaces == {"ws_1", "ws_2"}

\* projectId of a row that exists but is owned by nobody, and a missing row
Null == "null"
NoRow == "norow"

\* the workspace that owns a domain and its links before any detach
Owner(d) == IF d = <<"g", "o">> THEN "ws_1" ELSE "ws_2"

\* the fixed columns of link i
LinkDomain(i) == IF i = 0 THEN <<"a", "c">> ELSE <<"g", "o">>
\* key column: mixed case on odd rows
LinkKey(i) == IF i % 2 = 1 THEN <<"K", ToString(i)>> ELSE <<"k", ToString(i)>>
\* image column: an asset of this link in R2, an asset on another host,
\* null (the empty sequence)
LinkImage(i) ==
    CASE i % 3 = 1 -> <<R2_URL, "images", ToString(i)>>
      [] i % 3 = 2 -> <<"https://cdn.example", "images", ToString(i)>>
      [] OTHER -> <<>>

(* ---------------------------- pure helpers ----------------------------- *)
\* String.prototype.toLowerCase on the characters the model uses
LowerChar(c) ==
    CASE c = "K" -> "k"
      [] c = "G" -> "g"
      [] c = "A" -> "a"
      [] OTHER -> c
toLowerCase(s) == [n \in DOMAIN s |-> LowerChar(s[n])]

\* `${link.domain}:${link.key}`.toLowerCase()
CacheKey(i) == toLowerCase(LinkDomain(i) \o <<":">> \o LinkKey(i))
\* the key under which the write path stored link i
StoredKey(i) == toLowerCase(LinkDomain(i)) \o <<":">> \o toLowerCase(LinkKey(i))

\* String.prototype.startsWith, on path segments
startsWith(s, prefix) ==
    /\ Len(prefix) <= Len(s)
    /\ \A n \in 1..Len(prefix) : s[n] = prefix[n]

\* link.image?.startsWith(`${R2_URL}/images/${link.id}`)
OwnsAsset(i) ==
    /\ LinkImage(i) # <<>>
    /\ startsWith(LinkImage(i), <<R2_URL, "images", ToString(i)>>)
\* link.image!.replace(`${R2_URL}/`, "")
AssetPath(i) ==
    IF Len(LinkImage(i)) > 0 /\ Head(LinkImage(i)) = R2_URL
    THEN Tail(LinkImage(i)) ELSE LinkImage(i)

\* an optional argument: absent, or one value
Absent == {}
Some(x) == {x}
\* delay && { delay }
Truthy(delay) == \E x \in delay : x # 0

BagAdd(b, e) == b (+) SetToBag({e})
BagRemove(b, e) == b (-) SetToBag({e})

(* ------------------------------ the state ------------------------------ *)
VARIABLES
    \* the remote stores
    domainRow,      \* prisma.domain: slug -> projectId, Null or NoRow
    linkRow,        \* prisma.link: id -> projectId, Null or NoRow
    usage,          \* prisma.project: workspace id -> linksUsage
    cache,          \* redis: the keys present
    objects,        \* R2: the object paths present
    events,         \* Tinybird: bag of the link events recorded
    vercel,         \* the domains bound at Vercel
    jobs,           \* QStash: bag of the messages published, not yet delivered
    reports,        \* console.error: bag of the reports written
    tasks,          \* storage.delete promises not settled: bag of [inv, path]
    unhandled,      \* rejected promises nobody awaited
    \* one record of locals per invocation slot
    pc, fn, args, links, response, remainingLinks, result,
    \* what the invocation in a slot has done: rows removed by its deleteMany,
    \* amount of its decrement, whether its domain.delete removed the row,
    \* the messages it passed to qstash.publishJSON, those QStash accepted
    removed, decremented, deleted, published, accepted,
    \* bookkeeping of the bounds: calls made and failures seen so far, the
    \* number of invocations that may overlap, the failures allowed
    calls, failures, width, quota,
    \* the number of links the called domain had at the start, and counts of
    \* the deleteDomainAndLinks invocations started and of the jobs they queued
    initial, tally

stores == <<domainRow, linkRow, usage, cache, objects, events, vercel, jobs,
            reports, tasks, unhandled>>
locals == <<pc, fn, args, links, response, remainingLinks, result,
            removed, decremented, deleted, published, accepted>>
limits == <<width, quota, initial>>
vars == <<stores, locals, calls, failures, limits, tally>>

\* an entry of the array Promise.allSettled resolves to
Pending == [status |-> "pending", reason |-> ""]
Fulfilled == [status |-> "fulfilled", reason |-> ""]
Rejected(reason) == [status |-> "rejected", reason |-> reason]

\* how an invocation ended, and at which await
NoResult == [status |-> "none", at |-> ""]
NoArgs == [domain |-> <<>>, workspaceId |-> ""]
NotCounted == -1

\* rows of prisma.link with the given domain
LiveLinks(d) == {i \in LinkIds : linkRow[i] # NoRow /\ LinkDomain(i) = d}

Min(a, b) == IF a <= b THEN a ELSE b

\* the stores before any call: both domains exist, link 0 and n more exist,
\* cache, bucket and usage counters agree with the link table
InitStores ==
    /\ domainRow = [d \in Domains |-> Owner(d)]
    /\ \E n \in 0..MaxLinks : LET present == 0..n IN
        /\ initial = n
        /\ linkRow = [i \in LinkIds |->
                        IF i \in present THEN Owner(LinkDomain(i)) ELSE NoRow]
        /\ cache = {StoredKey(i) : i \in present}
        /\ objects = {AssetPath(i) : i \in {j \in present : OwnsAsset(j)}}
        /\ usage = [w \in Workspaces |->
                        Cardinality({i \in present : Owner(LinkDomain(i)) = w})]
    /\ events = EmptyBag
    /\ vercel = Domains
    /\ jobs = EmptyBag
    /\ reports = EmptyBag
    /\ tasks = EmptyBag
    /\ unhandled = 0

InitLocals ==
    /\ pc = [p \in Procs |-> "idle"]
    /\ fn = [p \in Procs |-> "none"]
    /\ args = [p \in Procs |-> NoArgs]
    /\ links = [p \in Procs |-> {}]
    /\ response = [p \in Procs |-> <<>>]
    /\ remainingLinks = [p \in Procs |-> NotCounted]
    /\ result = [p \in Procs |-> NoResult]
    /\ removed = [p \in Procs |-> 0]
    /\ decremented = [p \in Procs |-> 0]
    /\ deleted = [p \in Procs |-> FALSE]
    /\ published = [p \in Procs |-> {}]
    /\ accepted = [p \in Procs |-> {}]
    /\ calls = 0
    /\ failures = 0
    /\ tally = [invocations |-> 0, requeued |-> 0]

\* one invocation at a time, remote calls may fail
Init ==
    /\ InitStores
    /\ InitLocals
    /\ width = 1
    /\ quota = MaxFailures

(* ------------------------- remote calls that fail ---------------------- *)
\* the ways a remote call can end: TRUE, and FALSE while failures are allowed
Outcomes == IF failures < quota THEN {TRUE, FALSE} ELSE {TRUE}
Spend(ok) == failures' = IF ok THEN failures ELSE failures + 1

\* the invocation in slot p ends: its promise is fulfilled or rejected
Return(p) ==
    /\ pc' = [pc EXCEPT ![p] = "done"]
    /\ result' = [result EXCEPT ![p] = [status |-> "returned", at |-> pc[p]]]
Raise(p) ==
    /\ pc' = [pc EXCEPT ![p] = "done"]
    /\ result' = [result EXCEPT ![p] = [status |-> "raised", at |-> pc[p]]]

Settle(p, k, ok, reason) ==
    response' = [response EXCEPT ![p][k] = IF ok THEN Fulfilled ELSE Rejected(reason)]

\* variant: the delay field is always sent, 0 when no delay was given
MessageAlwaysDelay(workspaceId, domain, delay) ==
    [url |-> CronUrl,
     delay |-> IF delay = Absent THEN 0 ELSE CHOOSE x \in delay : TRUE,
     body |-> [workspaceId |-> workspaceId, domain |-> domain]]

(* ------------------------- queueDomainDeletion ------------------------- *)
\* the argument of qstash.publishJSON
Message(workspaceId, domain, delay) ==
    IF Truthy(delay)
    THEN [url |-> CronUrl, delay |-> CHOOSE x \in delay : TRUE,
          body |-> [workspaceId |-> workspaceId, domain |-> domain]]
    ELSE [url |-> CronUrl,
          body |-> [workspaceId |-> workspaceId, domain |-> domain]]

\* lines 174-191: queueDomainDeletion passes the message to
\* qstash.publishJSON, which accepts it (ok) or rejects
queueDomainDeletion(p, workspaceId, domain, delay, ok) ==
    LET m == Message(workspaceId, domain, delay) IN
    /\ published' = [published EXCEPT ![p] = @ \cup {m}]
    /\ jobs' = IF ok THEN BagAdd(jobs, m) ELSE jobs
    /\ accepted' = [accepted EXCEPT ![p] = IF ok THEN @ \cup {m} ELSE @]

(* --------------------------- invocation slots -------------------------- *)
Running == {p \in Procs : pc[p] \notin {"idle", "done"}}
Free == IF Cardinality(Running) < width THEN Procs \ Running ELSE {}
\* a new invocation takes the lowest free slot
Slot == CHOOSE p \in Free : \A q \in Free : p <= q

\* storage.delete promises of the invocation that leaves slot p stay in
\* flight, owned by no slot (0)
Retag(B, p) ==
    LET to(t) == [inv |-> IF t.inv = p THEN 0 ELSE t.inv, path |-> t.path]
        old(t) == IF t \in DOMAIN B THEN B[t] ELSE 0
    IN  [t \in {to(u) : u \in DOMAIN B} |->
            old(t) + IF t.inv = 0 THEN old([inv |-> p, path |-> t.path]) ELSE 0]

Start(p, f, domain, workspaceId) ==
    /\ pc' = [pc EXCEPT ![p] = IF f = "deleteDomainAndLinks" THEN "find" ELSE "detach"]
    /\ fn' = [fn EXCEPT ![p] = f]
    /\ args' = [args EXCEPT ![p] = [domain |-> domain, workspaceId |-> workspaceId]]
    /\ links' = [links EXCEPT ![p] = {}]
    /\ response' = [response EXCEPT ![p] =
            IF f = "deleteDomainAndLinks" THEN <<>>
            ELSE <<Pending, Pending, Pending, Pending>>]
    /\ remainingLinks' = [remainingLinks EXCEPT ![p] = NotCounted]
    /\ result' = [result EXCEPT ![p] = NoResult]
    /\ removed' = [removed EXCEPT ![p] = 0]
    /\ decremented' = [decremented EXCEPT ![p] = 0]
    /\ deleted' = [deleted EXCEPT ![p] = FALSE]
    /\ published' = [published EXCEPT ![p] = {}]
    /\ accepted' = [accepted EXCEPT ![p] = {}]
    /\ tasks' = Retag(tasks, p)
    /\ tally' = [tally EXCEPT !.invocations =
            IF f = "deleteDomainAndLinks" THEN @ + 1 ELSE @]

\* the cron route or an API route calls deleteDomainAndLinks
CallDelete ==
    /\ calls < MaxCalls
    /\ Free # {}
    /\ \E d \in Targets : Start(Slot, "deleteDomainAndLinks", d, Owner(d))
    /\ calls' = calls + 1
    /\ UNCHANGED <<domainRow, linkRow, usage, cache, objects, events, vercel,
                   jobs, reports, unhandled, failures, limits>>

\* QStash delivers a message to /api/cron/domains/delete
Deliver ==
    /\ Free # {}
    /\ \E m \in DOMAIN jobs :
        /\ jobs' = BagRemove(jobs, m)
        /\ Start(Slot, "deleteDomainAndLinks", m.body.domain, m.body.workspaceId)
    /\ UNCHANGED <<domainRow, linkRow, usage, cache, objects, events, vercel,
                   reports, unhandled, calls, failures, limits>>

(* ------------------------- deleteDomainAndLinks ------------------------ *)
\* variant: take: 2, the batch holds up to two links of the domain
findManyTwo(domain) ==
    LET live == LiveLinks(domain)
    IN  {b \in SUBSET live : Cardinality(b) = Min(Take + 1, Cardinality(live))}

\* variant: the where clause is dropped, links of any domain are returned
findManyAnyDomain(domain) ==
    LET all == {i \in LinkIds : linkRow[i] # NoRow}
    IN  {b \in SUBSET all : Cardinality(b) = Min(Take, Cardinality(all))}

\* prisma.link.findMany({ where: { domain }, take: 1 }): no order is asked for
findMany(domain) ==
    {b \in SUBSET LiveLinks(domain) :
        Cardinality(b) = Min(Take, Cardinality(LiveLinks(domain)))}

\* the storage.delete calls started while the array is built
Launched(p, batch) ==
    SetToBag({[inv |-> p, path |-> AssetPath(i)] : i \in {j \in batch : OwnsAsset(j)}})

\* variant: no early return; an empty batch goes on to the count
FindThenCount(p) ==
    /\ pc[p] = "find"
    /\ \E ok \in Outcomes :
        /\ Spend(ok)
        /\ IF ~ok
           THEN /\ Raise(p)
                /\ UNCHANGED <<links, response, tasks>>
           ELSE \E batch \in findMany(args[p].domain) :
                /\ links' = [links EXCEPT ![p] = batch]
                /\ IF batch = {}
                   THEN /\ pc' = [pc EXCEPT ![p] = "count"]
                        /\ UNCHANGED <<response, tasks, result>>
                   ELSE /\ pc' = [pc EXCEPT ![p] = "fanout"]
                        \* the second member is an array, not a promise:
                        \* allSettled takes it as a value, fulfilled at once
                        /\ response' = [response EXCEPT ![p] =
                                <<Pending, Fulfilled, Pending, Pending, Pending>>]
                        /\ tasks' = tasks (+) Launched(p, batch)
                        /\ UNCHANGED result
    /\ UNCHANGED <<domainRow, linkRow, usage, cache, objects, events, vercel,
                   jobs, reports, unhandled, fn, args, remainingLinks,
                   removed, decremented, deleted, published, accepted, calls, limits, tally>>

\* lines 17-37: the query, the early return, and the start of the five members
Find(p) ==
    /\ pc[p] = "find"
    /\ \E ok \in Outcomes :
        /\ Spend(ok)
        /\ IF ~ok
           THEN /\ Raise(p)
                /\ UNCHANGED <<links, response, tasks>>
           ELSE \E batch \in findMany(args[p].domain) :
                /\ links' = [links EXCEPT ![p] = batch]
                /\ IF batch = {}
                   THEN /\ Return(p)
                        /\ UNCHANGED <<response, tasks>>
                   ELSE /\ pc' = [pc EXCEPT ![p] = "fanout"]
                        \* the second member is an array, not a promise:
                        \* allSettled takes it as a value, fulfilled at once
                        /\ response' = [response EXCEPT ![p] =
                                <<Pending, Fulfilled, Pending, Pending, Pending>>]
                        /\ tasks' = tasks (+) Launched(p, batch)
                        /\ UNCHANGED result
    /\ UNCHANGED <<domainRow, linkRow, usage, cache, objects, events, vercel,
                   jobs, reports, unhandled, fn, args, remainingLinks,
                   removed, decremented, deleted, published, accepted, calls, limits, tally>>

\* the event recordLink sends for link i
Event(i, workspaceId) ==
    [link_id |-> i, domain |-> LinkDomain(i), key |-> LinkKey(i),
     workspace_id |-> workspaceId, deleted |-> TRUE]

\* member 1: recordLink(links.map(...))
RecordLink(p) ==
    /\ pc[p] = "fanout"
    /\ response[p][1] = Pending
    /\ \E ok \in Outcomes :
        /\ Spend(ok)
        /\ Settle(p, 1, ok, "tinybird")
        /\ events' = IF ok
                     THEN events (+) SetToBag({Event(i, args[p].workspaceId) : i \in links[p]})
                     ELSE events
    /\ UNCHANGED <<domainRow, linkRow, usage, cache, objects, vercel, jobs,
                   reports, tasks, unhandled, pc, fn, args, links,
                   remainingLinks, result, removed, decremented, deleted,
                   published, accepted, calls, limits, tally>>

\* a storage.delete promise settles, whenever: nothing awaits it
StorageDelete ==
    /\ \E t \in DOMAIN tasks, ok \in Outcomes :
        /\ Spend(ok)
        /\ tasks' = BagRemove(tasks, t)
        /\ objects' = IF ok THEN objects \ {t.path} ELSE objects
        /\ unhandled' = IF ok THEN unhandled ELSE unhandled + 1
    /\ UNCHANGED <<domainRow, linkRow, usage, cache, events, vercel, jobs,
                   reports, locals, calls, limits, tally>>

\* member 3: pipeline.exec() of the pipeline.del calls
PipelineExec(p) ==
    /\ pc[p] = "fanout"
    /\ response[p][3] = Pending
    /\ \E ok \in Outcomes :
        /\ Spend(ok)
        /\ Settle(p, 3, ok, "redis")
        /\ cache' = IF ok THEN cache \ {CacheKey(i) : i \in links[p]} ELSE cache
    /\ UNCHANGED <<domainRow, linkRow, usage, objects, events, vercel, jobs,
                   reports, tasks, unhandled, pc, fn, args, links,
                   remainingLinks, result, removed, decremented, deleted,
                   published, accepted, calls, limits, tally>>

\* member 4: prisma.link.deleteMany({ where: { id: { in: ids } } })
DeleteMany(p) ==
    /\ pc[p] = "fanout"
    /\ response[p][4] = Pending
    /\ \E ok \in Outcomes :
        /\ Spend(ok)
        /\ Settle(p, 4, ok, "prisma.link")
        /\ linkRow' = IF ok
                      THEN [i \in LinkIds |-> IF i \in links[p] THEN NoRow ELSE linkRow[i]]
                      ELSE linkRow
        /\ removed' = [removed EXCEPT ![p] =
                IF ok THEN Cardinality({i \in links[p] : linkRow[i] # NoRow}) ELSE @]
    /\ UNCHANGED <<domainRow, usage, cache, objects, events, vercel, jobs,
                   reports, tasks, unhandled, pc, fn, args, links,
                   remainingLinks, result, decremented, deleted,
                   published, accepted, calls, limits, tally>>

\* member 5: prisma.project.update({ linksUsage: { decrement: links.length } })
ProjectUpdate(p) ==
    /\ pc[p] = "fanout"
    /\ response[p][5] = Pending
    /\ \E ok \in Outcomes :
        /\ Spend(ok)
        /\ Settle(p, 5, ok, "prisma.project")
        /\ usage' = IF ok
                    THEN [usage EXCEPT ![args[p].workspaceId] = @ - Cardinality(links[p])]
                    ELSE usage
        /\ decremented' = [decremented EXCEPT ![p] =
                IF ok THEN Cardinality(links[p]) ELSE @]
    /\ UNCHANGED <<domainRow, linkRow, cache, objects, events, vercel, jobs,
                   reports, tasks, unhandled, pc, fn, args, links,
                   remainingLinks, result, removed, deleted, published, accepted, calls, limits, tally>>

\* the reports of response.forEach: one per rejected entry
FanoutReports(p) ==
    LET rejected == {k \in DOMAIN response[p] : response[p][k].status = "rejected"}
        report(k) == [msg |-> "Error deleting domain and links",
                      reason |-> response[p][k].reason,
                      domain |-> args[p].domain,
                      workspaceId |-> args[p].workspaceId]
    IN  SetToBag({report(k) : k \in rejected})

\* variant: Promise.all, which rejects at the first rejected entry
AllFailFast(p) ==
    /\ pc[p] = "fanout"
    /\ IF \E k \in DOMAIN response[p] : response[p][k].status = "rejected"
       THEN Raise(p)
       ELSE /\ \A k \in DOMAIN response[p] : response[p][k] # Pending
            /\ pc' = [pc EXCEPT ![p] = "count"]
            /\ UNCHANGED result
    /\ UNCHANGED <<stores, fn, args, links, response, remainingLinks,
                   removed, decremented, deleted, published, accepted,
                   calls, failures, limits, tally>>

\* lines 37-88: Promise.allSettled resolves once no entry is pending
AllSettled(p) ==
    /\ pc[p] = "fanout"
    /\ \A k \in DOMAIN response[p] : response[p][k] # Pending
    /\ reports' = reports (+) FanoutReports(p)
    /\ pc' = [pc EXCEPT ![p] = "count"]
    /\ UNCHANGED <<domainRow, linkRow, usage, cache, objects, events, vercel,
                   jobs, tasks, unhandled, fn, args, links, response,
                   remainingLinks, result, removed, decremented, deleted,
                   published, accepted, calls, failures, limits, tally>>

\* variant: the batch is taken as removed instead of being counted again
countAssumingBatchGone(domain) ==
    IF Cardinality(LiveLinks(domain)) > Take
    THEN Cardinality(LiveLinks(domain)) - Take ELSE 0

\* prisma.link.count({ where: { domain } })
count(domain) == Cardinality(LiveLinks(domain))

\* variant: if (remainingLinks > 1)
DecideOffByOne(n) == IF n > 1 THEN "requeue" ELSE "delete"

\* variant: if (remainingLinks >= 0)
DecideAlwaysRequeue(n) == IF n >= 0 THEN "requeue" ELSE "delete"

\* line 96: if (remainingLinks > 0)
Decide(n) == IF n > 0 THEN "requeue" ELSE "delete"

\* lines 90-96
CountRemaining(p) ==
    /\ pc[p] = "count"
    /\ \E ok \in Outcomes :
        /\ Spend(ok)
        /\ IF ok
           THEN /\ remainingLinks' = [remainingLinks EXCEPT ![p] = count(args[p].domain)]
                /\ pc' = [pc EXCEPT ![p] = Decide(count(args[p].domain))]
                /\ UNCHANGED result
           ELSE /\ Raise(p)
                /\ UNCHANGED remainingLinks
    /\ UNCHANGED <<stores, fn, args, links, response, removed, decremented,
                   deleted, published, accepted, calls, limits, tally>>

\* variant: the rejection of queueDomainDeletion is caught and dropped
RequeueCaught(p) ==
    /\ pc[p] = "requeue"
    /\ \E ok \in Outcomes :
        /\ Spend(ok)
        /\ queueDomainDeletion(p, args[p].workspaceId, args[p].domain,
                               Some(RequeueDelay), ok)
        /\ tally' = [tally EXCEPT !.requeued = IF ok THEN @ + 1 ELSE @]
        /\ Return(p)
    /\ UNCHANGED <<domainRow, linkRow, usage, cache, objects, events, vercel,
                   reports, tasks, unhandled, fn, args, links, response,
                   remainingLinks, removed, decremented, deleted, calls, limits>>

\* lines 96-102: return await queueDomainDeletion({ workspaceId, domain, delay: 2 })
Requeue(p) ==
    /\ pc[p] = "requeue"
    /\ \E ok \in Outcomes :
        /\ Spend(ok)
        /\ queueDomainDeletion(p, args[p].workspaceId, args[p].domain,
                               Some(RequeueDelay), ok)
        /\ tally' = [tally EXCEPT !.requeued = IF ok THEN @ + 1 ELSE @]
        /\ IF ok THEN Return(p) ELSE Raise(p)
    /\ UNCHANGED <<domainRow, linkRow, usage, cache, objects, events, vercel,
                   reports, tasks, unhandled, fn, args, links, response,
                   remainingLinks, removed, decremented, deleted, calls, limits>>

\* lines 104-109: prisma.domain.delete({ where: { slug: domain } });
\* it rejects when no row has the slug
DomainDelete(p) ==
    /\ pc[p] = "delete"
    /\ \E ok \in Outcomes :
        /\ Spend(ok)
        /\ IF ok /\ domainRow[args[p].domain] # NoRow
           THEN /\ domainRow' = [domainRow EXCEPT ![args[p].domain] = NoRow]
                /\ deleted' = [deleted EXCEPT ![p] = TRUE]
                /\ Return(p)
           ELSE /\ Raise(p)
                /\ UNCHANGED <<domainRow, deleted>>
    /\ UNCHANGED <<linkRow, usage, cache, objects, events, vercel, jobs,
                   reports, tasks, unhandled, fn, args, links, response,
                   remainingLinks, removed, decremented, published, accepted, calls, limits, tally>>

(* -------------------------- markDomainAsDeleted ------------------------ *)
\* an API route calls markDomainAsDeleted; the four members of the array
\* are started while it is built
CallMark ==
    /\ calls < MaxCalls
    /\ Free # {}
    /\ \E d \in Targets : Start(Slot, "markDomainAsDeleted", d, Owner(d))
    /\ calls' = calls + 1
    /\ UNCHANGED <<domainRow, linkRow, usage, cache, objects, events, vercel,
                   jobs, reports, unhandled, failures, limits>>

\* member 1: removeDomainFromVercel(domain)
RemoveDomainFromVercel(p) ==
    /\ pc[p] = "detach"
    /\ response[p][1] = Pending
    /\ \E ok \in Outcomes :
        /\ Spend(ok)
        /\ Settle(p, 1, ok, "vercel")
        /\ vercel' = IF ok THEN vercel \ {args[p].domain} ELSE vercel
    /\ UNCHANGED <<domainRow, linkRow, usage, cache, objects, events, jobs,
                   reports, tasks, unhandled, pc, fn, args, links,
                   remainingLinks, result, removed, decremented, deleted,
                   published, accepted, calls, limits, tally>>

\* member 2: prisma.domain.update({ where: { slug }, data: { projectId: null } });
\* it rejects when no row has the slug
DomainUpdate(p) ==
    /\ pc[p] = "detach"
    /\ response[p][2] = Pending
    /\ \E ok \in Outcomes :
        /\ Spend(ok)
        /\ IF ok /\ domainRow[args[p].domain] # NoRow
           THEN /\ Settle(p, 2, TRUE, "")
                /\ domainRow' = [domainRow EXCEPT ![args[p].domain] = Null]
           ELSE /\ Settle(p, 2, FALSE, "prisma.domain")
                /\ UNCHANGED domainRow
    /\ UNCHANGED <<linkRow, usage, cache, objects, events, vercel, jobs,
                   reports, tasks, unhandled, pc, fn, args, links,
                   remainingLinks, result, removed, decremented, deleted,
                   published, accepted, calls, limits, tally>>

\* member 3: prisma.link.updateMany({ where: { domain }, data: { projectId: null } })
LinkUpdateMany(p) ==
    /\ pc[p] = "detach"
    /\ response[p][3] = Pending
    /\ \E ok \in Outcomes :
        /\ Spend(ok)
        /\ Settle(p, 3, ok, "prisma.link")
        /\ linkRow' = IF ok
                      THEN [i \in LinkIds |->
                                IF i \in LiveLinks(args[p].domain) THEN Null ELSE linkRow[i]]
                      ELSE linkRow
    /\ UNCHANGED <<domainRow, usage, cache, objects, events, vercel, jobs,
                   reports, tasks, unhandled, pc, fn, args, links,
                   remainingLinks, result, removed, decremented, deleted,
                   published, accepted, calls, limits, tally>>

\* member 4: queueDomainDeletion({ workspaceId, domain })
MarkQueue(p) ==
    /\ pc[p] = "detach"
    /\ response[p][4] = Pending
    /\ \E ok \in Outcomes :
        /\ Spend(ok)
        /\ Settle(p, 4, ok, "qstash")
        /\ queueDomainDeletion(p, args[p].workspaceId, args[p].domain, Absent, ok)
    /\ UNCHANGED <<domainRow, linkRow, usage, cache, objects, events, vercel,
                   reports, tasks, unhandled, pc, fn, args, links,
                   remainingLinks, result, removed, decremented, deleted, calls, limits, tally>>

\* lines 121, 149-171: the array of four is destructured into three names,
\* [vercelResponse, prismaResponse, qstashResponse], and each is reported
MarkReports(p) ==
    LET vercelResponse == response[p][1]
        prismaResponse == response[p][2]
        qstashResponse == response[p][3]
        report(msg, r) == [msg |-> msg, reason |-> r.reason,
                           domain |-> args[p].domain,
                           workspaceId |-> args[p].workspaceId]
        one(msg, r) == IF r.status = "rejected"
                       THEN SetToBag({report(msg, r)}) ELSE EmptyBag
    IN  one("Error deleting domain from Vercel", vercelResponse)
        (+) one("Error deleting domain from Prisma", prismaResponse)
        (+) one("Error publishing to Qstash", qstashResponse)

\* variant: Promise.all, which rejects at the first rejected entry
MarkFailFast(p) ==
    /\ pc[p] = "detach"
    /\ IF \E k \in DOMAIN response[p] : response[p][k].status = "rejected"
       THEN Raise(p)
       ELSE /\ \A k \in DOMAIN response[p] : response[p][k] # Pending
            /\ Return(p)
    /\ UNCHANGED <<stores, fn, args, links, response, remainingLinks,
                   removed, decremented, deleted, published, accepted,
                   calls, failures, limits, tally>>

\* Promise.allSettled resolves once no entry is pending; the function returns
MarkSettled(p) ==
    /\ pc[p] = "detach"
    /\ \A k \in DOMAIN response[p] : response[p][k] # Pending
    /\ reports' = reports (+) MarkReports(p)
    /\ Return(p)
    /\ UNCHANGED <<domainRow, linkRow, usage, cache, objects, events, vercel,
                   jobs, tasks, unhandled, fn, args, links, response,
                   remainingLinks, removed, decremented, deleted, published, accepted,
                   calls, failures, limits, tally>>

(* --------------------------- the specification ------------------------- *)
\* the next await of the invocation in slot p resolves
Step(p) ==
    \/ Find(p)
    \/ RecordLink(p)
    \/ PipelineExec(p)
    \/ DeleteMany(p)
    \/ ProjectUpdate(p)
    \/ AllSettled(p)
    \/ CountRemaining(p)
    \/ Requeue(p)
    \/ DomainDelete(p)
    \/ RemoveDomainFromVercel(p)
    \/ DomainUpdate(p)
    \/ LinkUpdateMany(p)
    \/ MarkQueue(p)
    \/ MarkSettled(p)

Next ==
    \/ CallDelete
    \/ CallMark
    \/ Deliver
    \/ StorageDelete
    \/ \E p \in Procs : Step(p)

Spec == Init /\ [][Next]_vars

\* no remote call fails; every promise settles and QStash delivers every
\* message it accepted
LiveInit ==
    /\ InitStores
    /\ InitLocals
    /\ width = 1
    /\ quota = 0

Fairness ==
    /\ WF_vars(Deliver)
    /\ WF_vars(StorageDelete)
    /\ \A p \in Procs : WF_vars(Step(p))

LiveSpec == LiveInit /\ [][Next]_vars /\ Fairness

\* the stores after markDomainAsDeleted was called twice for the same domain
\* and all its members were fulfilled: the domain and its links are owned by
\* nobody, the domain is released at Vercel, and two jobs are queued
DetachedTwice ==
    /\ \E d \in Targets :
        /\ domainRow = [e \in Domains |-> IF e = d THEN Null ELSE Owner(e)]
        /\ vercel = Domains \ {d}
        /\ jobs = SetToBag({Message(Owner(d), d, Absent)})
                    (+) SetToBag({Message(Owner(d), d, Absent)})
        /\ \E n \in 0..MaxLinks : LET present == 0..n IN
            /\ initial = n
            /\ linkRow = [i \in LinkIds |->
                            IF i \notin present THEN NoRow
                            ELSE IF LinkDomain(i) = d THEN Null
                            ELSE Owner(LinkDomain(i))]
            /\ cache = {StoredKey(i) : i \in present}
            /\ objects = {AssetPath(i) : i \in {j \in present : OwnsAsset(j)}}
            /\ usage = [w \in Workspaces |->
                            Cardinality({i \in present : Owner(LinkDomain(i)) = w})]
    /\ events = EmptyBag
    /\ reports = EmptyBag
    /\ tasks = EmptyBag
    /\ unhandled = 0

\* two invocations may overlap, no remote call fails
OverlapInit ==
    /\ DetachedTwice
    /\ InitLocals
    /\ width = 2
    /\ quota = 0

OverlapSpec == OverlapInit /\ [][Next]_vars

(* ------------------------------ the claims ----------------------------- *)
DeleteFlow(p) == fn[p] = "deleteDomainAndLinks"
MarkFlow(p) == fn[p] = "markDomainAsDeleted"
Done(p) == pc[p] = "done"
\* the invocation in slot p has passed the Promise.allSettled of its fan-out
PastFanout(p) ==
    /\ DeleteFlow(p)
    /\ links[p] # {}
    /\ pc[p] \in {"count", "requeue", "delete", "done"}
Target == CHOOSE d \in Targets : TRUE

\* C1: an invocation that finds no link of its domain skips the fan-out and
\* has deleted the domain row when it returns.
C1_ZeroLinksRowDeleted ==
    \A p \in Procs :
        (DeleteFlow(p) /\ Done(p) /\ result[p].status = "returned" /\ links[p] = {})
            => (response[p] = <<>> /\ deleted[p])

\* C2: an invocation has deleted the domain row only if the count it made
\* after its fan-out was zero, and no domain row is missing while links of
\* that domain exist, whatever failed before.
C2_RowDeletedOnlyAtZero ==
    /\ \A p \in Procs : deleted[p] => remainingLinks[p] = 0
    /\ \A d \in Domains : domainRow[d] = NoRow => LiveLinks(d) = {}

\* a row was deleted in a run in which a deleteMany had failed before
C2_Witness ==
    /\ \E p \in Procs : deleted[p] /\ links[p] # {} /\ remainingLinks[p] = 0
    /\ \E r \in DOMAIN reports : r.reason = "prisma.link"
    /\ domainRow[Target] = NoRow

\* C3: an invocation whose count after the fan-out is above zero passes a
\* message with its own domain and workspace id to QStash (which holds it as
\* a job when it accepts it), and ends without deleting the domain row.
C3_RequeueWhenLinksRemain ==
    [][\A p \in Procs :
        (DeleteFlow(p) /\ remainingLinks[p] > 0 /\ ~Done(p) /\ pc'[p] = "done")
            => LET body == [workspaceId |-> args[p].workspaceId,
                            domain |-> args[p].domain]
               IN /\ domainRow' = domainRow
                  /\ ~deleted'[p]
                  /\ \E m \in published'[p] : m.body = body
                  /\ \A m \in published'[p] : m.body = body
                  /\ result'[p].status = "returned"
                        => \E m \in published'[p] : jobs' = BagAdd(jobs, m)
                  /\ result'[p].status = "raised"
                        => jobs' = jobs /\ accepted'[p] = {}
    ]_vars

\* an invocation counted a link left, returned, and its job is queued
C3_Witness ==
    \E p \in Procs :
        /\ DeleteFlow(p) /\ Done(p) /\ remainingLinks[p] > 0
        /\ result[p].status = "returned"
        /\ ~deleted[p]
        /\ \E m \in DOMAIN jobs : m \in accepted[p] /\ m.body.domain = args[p].domain

\* the effect of member k of the fan-out of slot p is in the stores
Effect(p, k) ==
    CASE k = 1 -> \A i \in links[p] : BagIn(Event(i, args[p].workspaceId), events)
      [] k = 3 -> \A i \in links[p] : CacheKey(i) \notin cache
      [] k = 4 -> \A i \in links[p] : linkRow[i] = NoRow
      [] k = 5 -> decremented[p] = Cardinality(links[p])
      [] OTHER -> TRUE

\* a member of the fan-out of slot p can settle, or the barrier can resolve
FanoutStep(p) ==
    \/ RecordLink(p) \/ PipelineExec(p) \/ DeleteMany(p) \/ ProjectUpdate(p)
    \/ AllSettled(p)

C5_FullBarrier ==
    \A p \in Procs :
        (DeleteFlow(p) /\ pc[p] \in {"count", "requeue", "delete"})
            => /\ \A k \in DOMAIN response[p] : response[p][k] # Pending
               /\ \A t \in DOMAIN tasks : t.inv # p

\* the enqueue of slot p on the requeue path was rejected
EnqueueFailed(p) == DeleteFlow(p) /\ Done(p) /\ published[p] # accepted[p]

C7_DecrementEqualsRemoved ==
    \A p \in Procs : PastFanout(p) => decremented[p] = removed[p]

\* the report the claim expects for member k of markDomainAsDeleted
OriginMsg(k) ==
    CASE k = 1 -> "Error deleting domain from Vercel"
      [] k = 2 -> "Error deleting domain from Prisma"
      [] k = 3 -> "Error deleting domain from Prisma"
      [] OTHER -> "Error publishing to Qstash"
OwnReports(p) ==
    LET rejected == {k \in 1..4 : response[p][k].status = "rejected"}
    IN  SetToBag({[msg |-> OriginMsg(k), reason |-> response[p][k].reason,
                   domain |-> args[p].domain,
                   workspaceId |-> args[p].workspaceId] : k \in rejected})

\* C8: markDomainAsDeleted writes one report per rejected member, under the
\* heading of that member's origin, and none for a fulfilled member.
C8_ReportsByOrigin ==
    [][\A p \in Procs :
        (MarkFlow(p) /\ pc[p] = "detach" /\ pc'[p] = "done")
            => reports' = reports (+) OwnReports(p)
    ]_vars

\* a member of markDomainAsDeleted of slot p can settle, or the call return
MarkStep(p) ==
    \/ RemoveDomainFromVercel(p) \/ DomainUpdate(p) \/ LinkUpdateMany(p)
    \/ MarkQueue(p) \/ MarkSettled(p)

\* C9: whichever members of markDomainAsDeleted fail, every other member
\* takes effect (project cleared on the domain row and on every link of the
\* domain, the job queued with the call's domain and workspace id), and the
\* call returns, never raising, once all four have settled.
C9_MarkIsolatesFailures ==
    \A p \in Procs : MarkFlow(p) =>
        /\ pc[p] = "detach" => (result[p].status = "none" /\ ENABLED MarkStep(p))
        /\ Done(p) => /\ result[p].status = "returned"
                      /\ \A k \in 1..4 : response[p][k] # Pending
        /\ response[p][1] = Fulfilled => args[p].domain \notin vercel
        /\ response[p][2] = Fulfilled => domainRow[args[p].domain] = Null
        /\ response[p][3] = Fulfilled
            => \A i \in LiveLinks(args[p].domain) : linkRow[i] = Null
        /\ response[p][4] = Fulfilled
            => /\ accepted[p] = {Message(args[p].workspaceId, args[p].domain, Absent)}
               /\ Done(p) => BagIn(Message(args[p].workspaceId, args[p].domain, Absent), jobs)
        /\ response[p][4].status = "rejected" => accepted[p] = {}

\* the provider release failed; the rest took effect on a domain with links
C9_Witness ==
    \E p \in Procs :
        /\ MarkFlow(p) /\ Done(p)
        /\ response[p][1].status = "rejected"
        /\ response[p][2] = Fulfilled /\ domainRow[args[p].domain] = Null
        /\ response[p][3] = Fulfilled
        /\ Cardinality(LiveLinks(args[p].domain)) = MaxLinks
        /\ \A i \in LiveLinks(args[p].domain) : linkRow[i] = Null
        /\ response[p][4] = Fulfilled
        /\ jobs = SetToBag({Message(args[p].workspaceId, args[p].domain, Absent)})

\* the job of a markDomainAsDeleted call on d was accepted by QStash
DetachQueued(d) ==
    \E p \in Procs :
        MarkFlow(p) /\ args[p].domain = d /\ response[p][4] = Fulfilled
FullyDeleted(d) == domainRow[d] = NoRow /\ LiveLinks(d) = {}

\* C10: once the job of a detach is queued, and every job is delivered and
\* no remote call fails, the domain ends with no links and no domain row,
\* however many links it had, none included.
C10_DetachLeadsToDeleted ==
    \A d \in Targets : DetachQueued(d) ~> FullyDeleted(d)

\* the invocation in slot p returned after a fan-out
ReturnedAfterFanout(p) ==
    DeleteFlow(p) /\ Done(p) /\ links[p] # {} /\ result[p].status = "returned"

\* C11: when an invocation on a domain with links returns and nothing has
\* failed, every link of its batch has no row, no cache entry at its
\* lower-cased key, one event with deleted = TRUE, and its asset in R2 is
\* gone; linksUsage of the workspace is lower by the size of the batch.
C11_BatchFullyCleaned ==
    \A p \in Procs :
        ReturnedAfterFanout(p)
            => /\ \A i \in links[p] :
                    /\ linkRow[i] = NoRow
                    /\ toLowerCase(LinkDomain(i) \o <<":">> \o LinkKey(i)) \notin cache
                    /\ CopiesIn(Event(i, args[p].workspaceId), events) = 1
                    /\ Event(i, args[p].workspaceId).deleted
                    /\ OwnsAsset(i) => AssetPath(i) \notin objects
               /\ decremented[p] = Cardinality(links[p])
               /\ usage[args[p].workspaceId]
                    = initial - tally.invocations * Cardinality(links[p])

\* C12: an invocation on a domain that has no links and no domain row
\* returns at once, without an error, and leaves every store as it was: no
\* event, no cache or R2 deletion, no decrement, no job, no domain.delete.
C12_CleanedIsNoOp ==
    [][\A p \in Procs :
        (DeleteFlow(p) /\ pc[p] = "find" /\ FullyDeleted(args[p].domain)
            /\ pc'[p] # "find")
            => /\ pc'[p] = "done"
               /\ result'[p] = [status |-> "returned", at |-> "find"]
               /\ links'[p] = {} /\ response'[p] = <<>>
               /\ published'[p] = {} /\ ~deleted'[p]
               /\ decremented'[p] = 0 /\ removed'[p] = 0
               /\ stores' = stores
    ]_vars

\* an invocation has returned from its query on a cleaned domain
C12_Witness ==
    \E p \in Procs :
        /\ DeleteFlow(p) /\ Done(p)
        /\ result[p] = [status |-> "returned", at |-> "find"]
        /\ FullyDeleted(args[p].domain)
        /\ tally.invocations > initial

\* C13: an invocation whose count after the fan-out is zero goes on to
\* prisma.domain.delete, after which the domain row is gone in that same
\* invocation, and passes no message to QStash.
C13_DeleteWhenNoLinksRemain ==
    [][\A p \in Procs :
        (DeleteFlow(p) /\ remainingLinks[p] = 0 /\ ~Done(p) /\ pc'[p] = "done")
            => /\ pc[p] = "delete"
               /\ published'[p] = {} /\ accepted'[p] = {}
               /\ jobs' = jobs
               /\ tally'.requeued = tally.requeued
               \* unless the store rejects the call, the row is gone after it
               /\ failures' = failures => domainRow'[args[p].domain] = NoRow
               /\ result'[p].status = "returned"
                    => deleted'[p] /\ domainRow[args[p].domain] # NoRow
               /\ result'[p].status = "raised"
                    => result'[p].at = "delete" /\ domainRow' = domainRow
    ]_vars

\* an invocation counted zero and returned with the row deleted, no job queued
C13_Witness ==
    \E p \in Procs :
        /\ ReturnedAfterFanout(p)
        /\ remainingLinks[p] = 0
        /\ deleted[p] /\ domainRow[args[p].domain] = NoRow
        /\ published[p] = {} /\ jobs = EmptyBag

\* the report lines 82-86 write for a failure with the given cause
FanoutReport(p, reason) ==
    [msg |-> "Error deleting domain and links", reason |-> reason,
     domain |-> args[p].domain, workspaceId |-> args[p].workspaceId]

\* the awaited members: a rejected one is a rejected entry and is reported
AwaitedFailuresReported ==
    \A p \in Procs :
        PastFanout(p) =>
            \A k \in 1..5 :
                response[p][k].status = "rejected"
                    => BagIn(FanoutReport(p, response[p][k].reason), reports)

\* C14: every failed member of the fan-out is a rejected entry of the
\* collected outcomes and is reported with domain, workspace id and cause,
\* a failed storage.delete included.
C14_EveryFailureReported ==
    /\ AwaitedFailuresReported
    \* once the fan-out has been collected, a rejected storage.delete has
    \* its report, under the cause of the object store
    /\ (unhandled > 0 /\ \A p \in Procs : pc[p] # "fanout")
            => \E r \in DOMAIN reports : r.reason = "r2"

\* C15: when the query finds no link of the domain, the invocation returns
\* normally at once and every store is as before: no event, no cache or R2
\* deletion, no deleteMany, no decrement, no job.
C15_EmptyBatchChangesNothing ==
    [][\A p \in Procs :
        (DeleteFlow(p) /\ pc[p] = "find" /\ pc'[p] # "find"
            /\ LiveLinks(args[p].domain) = {} /\ failures' = failures)
            => /\ links'[p] = {}
               /\ result'[p] = [status |-> "returned", at |-> "find"]
               /\ response'[p] = <<>>
               /\ events' = events /\ cache' = cache /\ objects' = objects
               /\ tasks' = tasks /\ linkRow' = linkRow /\ usage' = usage
               /\ jobs' = jobs /\ published'[p] = {}
               /\ tally'.requeued = tally.requeued
               /\ reports' = reports /\ domainRow' = domainRow
    ]_vars

\* an invocation found no link of a domain whose row exists, and returned
C15_Witness ==
    \E p \in Procs :
        /\ DeleteFlow(p) /\ Done(p)
        /\ result[p] = [status |-> "returned", at |-> "find"]
        /\ links[p] = {}
        /\ domainRow[args[p].domain] # NoRow
        /\ \E i \in LinkIds : linkRow[i] # NoRow

\* the payload of message m is exactly the two arguments of invocation p
OwnPayload(p, m) ==
    /\ DOMAIN m.body = {"workspaceId", "domain"}
    /\ m.body.workspaceId = args[p].workspaceId
    /\ m.body.domain = args[p].domain

\* C16: a job published by markDomainAsDeleted has no delay field, a job
\* published by deleteDomainAndLinks has delay 2, each carries exactly the
\* domain and workspace id of the invocation that published it, and the
\* message built for an absent or zero delay has no delay field.
C16_JobDelayAndPayload ==
    /\ \A p \in Procs : \A m \in published[p] :
        /\ m.url = CronUrl
        /\ OwnPayload(p, m)
        /\ MarkFlow(p) => "delay" \notin DOMAIN m
        /\ DeleteFlow(p) => "delay" \in DOMAIN m /\ m.delay = 2
    /\ \A w \in Workspaces : \A d \in Domains :
        /\ \A delay \in {Absent, Some(0)} :
                DOMAIN Message(w, d, delay) = {"url", "body"}
        /\ \A x \in 1..3 :
                /\ DOMAIN Message(w, d, Some(x)) = {"url", "body", "delay"}
                /\ Message(w, d, Some(x)).delay = x

\* the detach job was delivered and the invocation it started has published
\* the delayed job in its turn
C16_Witness ==
    \E p \in Procs :
        /\ DeleteFlow(p)
        /\ \E m \in accepted[p] : m \in DOMAIN jobs /\ m.delay = RequeueDelay
        /\ domainRow[args[p].domain] = Null
        /\ calls = 1

\* one call started the chain for the target domain, which had links
SingleChain ==
    /\ initial >= 1
    /\ calls = 1

\* the chain for the target domain has ended with the domain row removed
ChainEnded ==
    /\ SingleChain
    /\ domainRow[Target] = NoRow

\* what k invocations have done by then, k the number of links at the start
ChainTotals ==
    /\ tally.invocations = initial
    /\ tally.requeued = initial - 1
    /\ BagCardinality(events) = initial
    /\ usage[Owner(Target)] = 0
    /\ LiveLinks(Target) = {}
    /\ jobs = EmptyBag

\* C17: with take 1, no failure, one invocation at a time and one call that
\* starts the chain, a domain that starts with k >= 1 links is removed as long
\* as no second call is made, and when its row is gone exactly k
\* invocations of deleteDomainAndLinks have run, k - 1 jobs were requeued,
\* k events were recorded and the usage counter went down by k.
C17_ChainOfK ==
    /\ [](ChainEnded => ChainTotals)
    /\ SingleChain ~> (ChainEnded \/ ~SingleChain)

\* a chain of MaxLinks invocations has ended
C17_Witness ==
    /\ ChainEnded
    /\ initial = MaxLinks
    /\ tally.requeued = MaxLinks - 1
    /\ Running = {}

\* two slots hold finished invocations of deleteDomainAndLinks for one
\* domain and workspace
FinishedPair(p, q) ==
    /\ p # q
    /\ DeleteFlow(p) /\ DeleteFlow(q)
    /\ Done(p) /\ Done(q)
    /\ args[p] = args[q]

\* C18: two invocations for the same domain and workspace, overlapping or
\* not, decrement linksUsage by as much in total as the number of link rows
\* their deleteMany calls removed.
C18_NoDoubleDecrement ==
    \A p, q \in Procs :
        FinishedPair(p, q)
            => decremented[p] + decremented[q] = removed[p] + removed[q]

\* C19: an invocation of deleteDomainAndLinks that counted zero remaining
\* links returns normally, also when another invocation for the same domain
\* counted zero as well and removed the domain row first.
C19_SecondDeleteIsNoOp ==
    \A p \in Procs :
        (DeleteFlow(p) /\ Done(p) /\ remainingLinks[p] = 0)
            => result[p].status = "returned"

====
